---------------------------- MODULE Spec2Model ----------------------------
(***************************************************************************)
(* State-machine model of the HTTP handlers of web.go: Fit, Fits and       *)
(* Search, run by Wrap against the in-memory catalog (s.Global) and the    *)
(* SQL store (s.DB / s.X).                                                 *)
(*                                                                         *)
(* Go strings and byte slices are sequences of one-character strings; the  *)
(* SQL text written to the strings.Builder is a sequence of tokens.  The   *)
(* store is modelled as a reliable PostgreSQL executor: it parses the      *)
(* token sequence it is sent and fails only when that text or a parameter  *)
(* is invalid.                                                             *)
(***************************************************************************)
EXTENDS Integers, Sequences, FiniteSets, TLC

VARIABLES
    catalog,    \* s.Global: [Items, Groups], read-only after load
    store,      \* the database: [fits, killmails]
    handler,    \* handler whose result Wrap has not written yet, or "none"
    req,        \* the form of the request being served
    ret,        \* the handler's first return value (the interface{})
    err,        \* the handler's second return value ("" is nil)
    queries,    \* the statements sent to the store while serving req
    touched,    \* TRUE once the handler has read s.Global for req
    status      \* HTTP status Wrap wrote for the previous request (0: none)

vars == <<catalog, store, handler, req, ret, err, queries, touched, status>>

---------------------------------------------------------------------------
(* Bounds of the model. *)

MaxItems == 2       \* longest item=... list in a request
MaxGroups == 2      \* longest group=... list in a request
BigStoreRows == 101 \* rows of the large fits table
BigItems == 52      \* items of the large catalog
MaxCand == 4        \* longest candidate string handed to match alone
MaxTerm == 4        \* longest raw search term handed to match alone

(* Constants of the program. *)

FitsLimit == 100    \* LIMIT 100
SearchCap == 50     \* len(ret.Results) > 50
MinTerm == 3        \* len(ret.Search) < 3

---------------------------------------------------------------------------
(* Generic helpers on sequences *)

SeqsUpTo(S, n) == UNION {[1..k -> S] : k \in 0..n}

Range(s) == {s[i] : i \in DOMAIN s}

Min(a, b) == IF a < b THEN a ELSE b

RECURSIVE SelectSeqBy(_, _)
\* the ascending sequence of a finite set of integers
SelectSeqBy(S, acc) ==
    IF S = {} THEN acc
    ELSE LET m == CHOOSE x \in S : \A y \in S : x <= y
         IN SelectSeqBy(S \ {m}, Append(acc, m))

Ascending(S) == SelectSeqBy(S, <<>>)

Reverse(s) == [i \in 1..Len(s) |-> s[Len(s) + 1 - i]]

Rotate(s, k) == [i \in 1..Len(s) |-> s[((i + k - 1) % Len(s)) + 1]]

\* Orders in which a Go `range` over a map with key set S may visit the keys.
\* Go leaves the order unspecified; the runtime starts at a random position.
\* The model takes every rotation of the ascending and of the descending
\* order, which is every permutation when S has at most three keys.
MapOrders(S) ==
    IF S = {} THEN {<<>>}
    ELSE LET a == Ascending(S)
         IN {Rotate(a, k) : k \in 0..(Len(a) - 1)} \cup
            {Rotate(Reverse(a), k) : k \in 0..(Len(a) - 1)}

---------------------------------------------------------------------------
(* strconv.Atoi, strings.TrimSpace, strings.ToLower, strings.Fields,       *)
(* strings.Contains as web.go uses them                                    *)

Digits == {"0", "1", "2", "3", "4", "5", "6", "7", "8", "9"}

DigitVal(c) == CHOOSE d \in 0..9 : ToString(d) = c

RECURSIVE ParseDigits(_, _)
ParseDigits(s, acc) ==
    IF s = <<>> THEN acc
    ELSE ParseDigits(Tail(s), acc * 10 + DigitVal(Head(s)))

\* strconv.Atoi(s) with the error dropped (`x, _ := strconv.Atoi(...)`):
\* the value on success, 0 on a syntax error.  The numerals of the model are
\* short: a range error of Atoi and the narrowing int32(ship), int32(itemid),
\* int32(groupid) do not arise.
Atoi(s) ==
    LET signed == s # <<>> /\ Head(s) \in {"+", "-"}
        body == IF signed THEN Tail(s) ELSE s
    IN IF body = <<>> \/ \E i \in DOMAIN body : body[i] \notin Digits
       THEN 0
       ELSE IF signed /\ Head(s) = "-" THEN 0 - ParseDigits(body, 0)
            ELSE ParseDigits(body, 0)

\* whether the store accepts text as an integer literal
\* (killmails.id = $1 with a text parameter)
IsInteger(s) ==
    LET signed == s # <<>> /\ Head(s) \in {"+", "-"}
        body == IF signed THEN Tail(s) ELSE s
    IN body # <<>> /\ \A i \in DOMAIN body : body[i] \in Digits

IsSpace(c) == c = " "

LowerChar(c) ==
    CASE c = "A" -> "a"
      [] c = "B" -> "b"
      [] c = "C" -> "c"
      [] c = "H" -> "h"
      [] c = "W" -> "w"
      [] OTHER -> c

ToLower(s) == [i \in DOMAIN s |-> LowerChar(s[i])]

RECURSIVE TrimLeft(_)
TrimLeft(s) == IF s # <<>> /\ IsSpace(Head(s)) THEN TrimLeft(Tail(s)) ELSE s

RECURSIVE TrimRight(_)
TrimRight(s) ==
    IF s # <<>> /\ IsSpace(s[Len(s)]) THEN TrimRight(SubSeq(s, 1, Len(s) - 1))
    ELSE s

TrimSpace(s) == TrimRight(TrimLeft(s))

RECURSIVE FieldsFrom(_, _, _)
\* strings.Fields: scan left to right, cur is the field being read
FieldsFrom(s, cur, acc) ==
    IF s = <<>> THEN (IF cur = <<>> THEN acc ELSE Append(acc, cur))
    ELSE IF IsSpace(Head(s))
         THEN FieldsFrom(Tail(s), <<>>, IF cur = <<>> THEN acc ELSE Append(acc, cur))
         ELSE FieldsFrom(Tail(s), Append(cur, Head(s)), acc)

Fields(s) == FieldsFrom(s, <<>>, <<>>)

RECURSIVE IndexFrom(_, _, _)
\* strings.Index: first position >= i at which sub occurs in s, 0 if none
IndexFrom(s, sub, i) ==
    IF i + Len(sub) - 1 > Len(s) THEN 0
    ELSE IF SubSeq(s, i, i + Len(sub) - 1) = sub THEN i
         ELSE IndexFrom(s, sub, i + 1)

Contains(s, sub) == IndexFrom(s, sub, 1) > 0

---------------------------------------------------------------------------
(* The catalog: s.Global.Items and s.Global.Groups *)

ZeroItem == [ID |-> 0, Name |-> <<>>, Lower |-> <<>>, Group |-> 0]

ZeroGroup == [ID |-> 0, Name |-> <<>>, Category |-> 0]

\* s.Global.Items[id]: a Go map read yields the zero value for a missing key
ItemAt(id) ==
    IF id \in DOMAIN catalog.Items THEN catalog.Items[id] ELSE ZeroItem

\* s.Global.Groups[id]
GroupAt(id) ==
    IF id \in DOMAIN catalog.Groups THEN catalog.Groups[id] ELSE ZeroGroup

\* searchCategories: category -> result type, "" for an unmapped category
searchCategories(c) ==
    CASE c = 6 -> "ship"
      [] c = 7 -> "item"
      [] c = 8 -> "item"
      [] c = 32 -> "item"
      [] OTHER -> ""

\* Categories whose groups are charges (category 8 is "charge").
ConsumableCategories == {8}

\* Group.IsCharge(): true iff the group's category is a consumable one
IsCharge(g) == g.Category \in ConsumableCategories

MkItem(id, name, group) ==
    [ID |-> id, Name |-> name, Lower |-> ToLower(name), Group |-> group]

MkGroup(id, name, category) == [ID |-> id, Name |-> name, Category |-> category]

\* A catalog of five groups and five items:
\*   group 1 "Warp Core" (module)  items 1 "Warp Core Ab", 2 "Core Warp"
\*   group 2 "Ammo"      (charge)  item 3 "Warp Ammo"
\*   group 3 "Hull"      (ship)    item 4 "Warp"
\*   group 4 "Cab"       (module)  no item
\*   group 5 "Abc"       (category 9, no result type)  item 5 "Abc Core"
SmallCatalog ==
    [Groups |->
        (1 :> MkGroup(1, <<"W","a","r","p"," ","C","o","r","e">>, 7)) @@
        (2 :> MkGroup(2, <<"A","m","m","o">>, 8)) @@
        (3 :> MkGroup(3, <<"H","u","l","l">>, 6)) @@
        (4 :> MkGroup(4, <<"C","a","b">>, 7)) @@
        (5 :> MkGroup(5, <<"A","b","c">>, 9)),
     Items |->
        (1 :> MkItem(1, <<"W","a","r","p"," ","C","o","r","e"," ","A","b">>, 1)) @@
        (2 :> MkItem(2, <<"C","o","r","e"," ","W","a","r","p">>, 1)) @@
        (3 :> MkItem(3, <<"W","a","r","p"," ","A","m","m","o">>, 2)) @@
        (4 :> MkItem(4, <<"W","a","r","p">>, 3)) @@
        (5 :> MkItem(5, <<"A","b","c"," ","C","o","r","e">>, 5))]

\* A catalog of BigItems items whose names all contain "abc": every thirtieth
\* one is in group 5 (no result type), the others in group 7 (module).
BigCatalog ==
    [Groups |->
        (7 :> MkGroup(7, <<"C","a","b">>, 7)) @@
        (5 :> MkGroup(5, <<"B","c","a">>, 9)),
     Items |->
        [i \in 1..BigItems |->
            MkItem(i, IF i % 2 = 0 THEN <<"A","b","c">> ELSE <<"a","b","c","a">>,
                   IF i % 30 = 0 THEN 5 ELSE 7)]]

---------------------------------------------------------------------------
(* encoding/json: json.Unmarshal(raw, &buf) with buf a []int32.  The raw   *)
(* bytes are a sequence of lexemes: "[", "]", ",", "{", "}", "null", or a  *)
(* one-digit number.                                                       *)

IsJSONArray(raw) ==
    /\ Len(raw) >= 2
    /\ raw[1] = "[" /\ raw[Len(raw)] = "]"
    /\ LET inner == SubSeq(raw, 2, Len(raw) - 1)
       IN \/ inner = <<>>
          \/ /\ Len(inner) % 2 = 1
             /\ \A i \in DOMAIN inner :
                   IF i % 2 = 1 THEN inner[i] \in Digits ELSE inner[i] = ","

\* the numbers of a valid array, in order
ArrayElems(raw) ==
    LET inner == SubSeq(raw, 2, Len(raw) - 1)
    IN [k \in 1..((Len(inner) + 1) \div 2) |-> DigitVal(inner[2 * k - 1])]

\* The slice after json.Unmarshal(raw, &buf), the error dropped:
\*   a JSON array replaces the contents, the literal null sets the slice to
\*   nil, and any input that fails (no bytes, a truncated text, a value of
\*   another type) leaves buf as it was.
Unmarshal(raw, buf) ==
    IF IsJSONArray(raw) THEN ArrayElems(raw)
    ELSE IF raw = <<"null">> THEN <<>>
         ELSE buf

---------------------------------------------------------------------------
(* The store: the fits table (killmail -> row, keys 1..n) and the ids of   *)
(* the killmails table                                                     *)

MkFit(k, ship, items, hi, med, low) ==
    [killmail |-> k, ship |-> ship, cost |-> k * 10, items |-> items,
     hiraw |-> hi, medraw |-> med, lowraw |-> low]

\* Three rows; row 2 has no bytes in hi, JSON null in med and a truncated
\* array in low; ids 3 (a charge) and 9 (not in the catalog) occur.
SmallStore ==
    [fits |->
        (3 :> MkFit(3, 4, {4, 1, 3}, <<"[","1",",","3","]">>, <<"[","9","]">>,
                    <<"[","]">>)) @@
        (2 :> MkFit(2, 4, {4, 2}, <<>>, <<"null">>, <<"[","2",",">>)) @@
        (1 :> MkFit(1, 4, {4, 1, 2}, <<"[","2",",","1","]">>, <<"[","]">>,
                    <<"[","1","]">>)),
     killmails |-> {1, 2, 3}]

\* BigStoreRows rows with empty slots; every 25th has ship 4 among its items
BigStore ==
    [fits |->
        [k \in 1..BigStoreRows |->
            MkFit(k, 4, IF k % 25 = 0 THEN {4} ELSE {}, <<"[","]">>, <<"[","]">>,
                  <<"[","]">>)],
     killmails |-> 1..BigStoreRows]

---------------------------------------------------------------------------
(* Fits: the statement text and its parameters.                            *)
(* A token is [tok, n]:                                                    *)
(*   SELECT  "SELECT killmail, ... FROM fits WHERE TRUE"                   *)
(*   AND     " AND"                LP " ("      RP ")"      OR " OR "      *)
(*   PH      " items @> $n"        PHARR " items @> array_to_json($n::int[])" *)
(*   TAIL    "ORDER BY killmail DESC LIMIT n"                              *)
(* A parameter is [kind, v]: kind "int" with v = <<id>>, kind "array" with *)
(* v the ids (pq.Array), kind "text" with v the characters.                *)

Tok(t, n) == [tok |-> t, n |-> n]

IntArg(x) == [kind |-> "int", v |-> <<x>>]

ArrayArg(xs) == [kind |-> "array", v |-> xs]

TextArg(s) == [kind |-> "text", v |-> s]

EmptyFilter == [ship |-> <<>>, item |-> <<>>, group |-> <<>>]

\* the builder's state before the first facet: sb, args, ret.Filter
BaseQuery == [sb |-> <<Tok("SELECT", 0)>>, args |-> <<>>, filter |-> EmptyFilter]

\* ShipClause accepting ship >= 0
ShipClauseNonNegative(b, form) ==
    LET ship == Atoi(form.ship)
    IN IF ship >= 0
       THEN LET args == Append(b.args, IntArg(ship))
            IN [sb |-> b.sb \o <<Tok("AND", 0), Tok("PH", Len(args))>>,
                args |-> args,
                filter |-> [b.filter EXCEPT !.ship = Append(@, ItemAt(ship))]]
       ELSE b

\* ship facet: `if ship, _ := strconv.Atoi(r.Form.Get("ship")); ship > 0`
ShipClause(b, form) ==
    LET ship == Atoi(form.ship)
    IN IF ship > 0
       THEN LET args == Append(b.args, IntArg(ship))
            IN [sb |-> b.sb \o <<Tok("AND", 0), Tok("PH", Len(args))>>,
                args |-> args,
                filter |-> [b.filter EXCEPT !.ship = Append(@, ItemAt(ship))]]
       ELSE b

RECURSIVE ItemIds(_)
\* the loop over r.Form["item"]: the ids > 0, in request order
ItemIds(values) ==
    IF values = <<>> THEN <<>>
    ELSE LET itemid == Atoi(Head(values))
         IN IF itemid <= 0 THEN ItemIds(Tail(values))
            ELSE <<itemid>> \o ItemIds(Tail(values))

\* ItemClause without the test `len(items) > 0`
ItemClauseAlways(b, form) ==
    LET items == ItemIds(form.item)
        args == Append(b.args, ArrayArg(items))
    IN [sb |-> b.sb \o <<Tok("AND", 0), Tok("PHARR", Len(args))>>,
        args |-> args,
        filter |-> [b.filter EXCEPT
                       !.item = @ \o [i \in DOMAIN items |-> ItemAt(items[i])]]]

\* item facet: one array parameter and one containment clause
ItemClause(b, form) ==
    LET items == ItemIds(form.item)
        echoed == [b.filter EXCEPT
                      !.item = @ \o [i \in DOMAIN items |-> ItemAt(items[i])]]
    IN IF Len(items) > 0
       THEN LET args == Append(b.args, ArrayArg(items))
            IN [sb |-> b.sb \o <<Tok("AND", 0), Tok("PHARR", Len(args))>>,
                args |-> args,
                filter |-> echoed]
       ELSE [b EXCEPT !.filter = echoed]

\* ids of the items of group gid
Members(gid) == {id \in DOMAIN catalog.Items : catalog.Items[id].Group = gid}

RECURSIVE GroupMembersOffByOne(_, _, _)
\* GroupMembers numbering the placeholder before the parameter is appended
GroupMembersOffByOne(b, order, first) ==
    IF order = <<>> THEN b
    ELSE LET args == Append(b.args, IntArg(Head(order)))
             sep == IF first THEN <<>> ELSE <<Tok("OR", 0)>>
         IN GroupMembersOffByOne(
                [b EXCEPT !.args = args,
                          !.sb = @ \o sep \o <<Tok("PH", Len(b.args))>>],
                Tail(order), FALSE)

RECURSIVE GroupMembers(_, _, _)
\* the inner loop `for id, item := range s.Global.Items` for one group,
\* visiting the group's items in `order`; first is TRUE until one is written
GroupMembers(b, order, first) ==
    IF order = <<>> THEN b
    ELSE LET args == Append(b.args, IntArg(Head(order)))
             sep == IF first THEN <<>> ELSE <<Tok("OR", 0)>>
         IN GroupMembers([b EXCEPT !.args = args,
                                   !.sb = @ \o sep \o <<Tok("PH", Len(args))>>],
                         Tail(order), FALSE)

\* one value of r.Form["group"]
GroupClause(b, value, order) ==
    LET groupid == Atoi(value)
    IN IF groupid <= 0 THEN b
       ELSE LET opened == [b EXCEPT !.sb = @ \o <<Tok("AND", 0), Tok("LP", 0)>>]
                filled == GroupMembers(opened, order, TRUE)
                g == GroupAt(groupid)
            IN [filled EXCEPT
                   !.sb = @ \o <<Tok("RP", 0)>>,
                   !.filter.group =
                       Append(@, [ZeroItem EXCEPT !.Name = g.Name, !.ID = g.ID])]

RECURSIVE GroupClauses(_, _, _)
\* the loop over r.Form["group"]; orders[i] is the order in which the i-th
\* value's range over s.Global.Items meets the members of its group
GroupClauses(b, values, orders) ==
    IF values = <<>> THEN b
    ELSE GroupClauses(GroupClause(b, Head(values), Head(orders)),
                      Tail(values), Tail(orders))

RECURSIVE GroupOrders(_)
\* the iteration orders the runtime may choose, one per value of the list
GroupOrders(values) ==
    IF values = <<>> THEN {<<>>}
    ELSE LET groupid == Atoi(Head(values))
             mine == IF groupid <= 0 THEN {<<>>} ELSE MapOrders(Members(groupid))
         IN {<<o>> \o r : o \in mine, r \in GroupOrders(Tail(values))}

\* the builder of Fits: the statement, its parameters and the filter echo
BuildQuery(form, orders) ==
    LET b == GroupClauses(ItemClause(ShipClause(BaseQuery, form), form),
                          form.group, orders)
    IN [b EXCEPT !.sb = @ \o <<Tok("TAIL", FitsLimit)>>]

---------------------------------------------------------------------------
(* The store executing a statement of Fits (s.X.SelectContext).            *)
(* Grammar of the WHERE clause after TRUE:                                 *)
(*   ( AND PH | AND PHARR | AND LP PH ( OR PH )* RP )*                     *)
(* An empty pair of parentheses is a syntax error in PostgreSQL.           *)

RECURSIVE ParseDisj(_, _, _)
\* the inside of a parenthesis from position i: the placeholders read, the
\* position after RP, ok = FALSE on a syntax error
ParseDisj(toks, i, phs) ==
    IF i > Len(toks) \/ toks[i].tok # "PH" THEN [ok |-> FALSE, phs |-> phs, next |-> i]
    ELSE LET got == Append(phs, toks[i].n)
         IN IF i + 1 > Len(toks) THEN [ok |-> FALSE, phs |-> got, next |-> i + 1]
            ELSE IF toks[i + 1].tok = "RP"
                 THEN [ok |-> TRUE, phs |-> got, next |-> i + 2]
                 ELSE IF toks[i + 1].tok = "OR" THEN ParseDisj(toks, i + 2, got)
                      ELSE [ok |-> FALSE, phs |-> got, next |-> i + 1]

RECURSIVE ParseWhere(_, _, _)
\* the conjuncts from position i up to the TAIL token
ParseWhere(toks, i, acc) ==
    IF i > Len(toks) THEN [ok |-> FALSE, clauses |-> acc, limit |-> 0]
    ELSE IF toks[i].tok = "TAIL"
         THEN [ok |-> i = Len(toks), clauses |-> acc, limit |-> toks[i].n]
         ELSE IF toks[i].tok # "AND" \/ i + 1 > Len(toks)
              THEN [ok |-> FALSE, clauses |-> acc, limit |-> 0]
              ELSE IF toks[i + 1].tok \in {"PH", "PHARR"}
                   THEN ParseWhere(toks, i + 2,
                            Append(acc, [kind |-> toks[i + 1].tok,
                                         phs |-> <<toks[i + 1].n>>]))
                   ELSE IF toks[i + 1].tok = "LP"
                        THEN LET d == ParseDisj(toks, i + 2, <<>>)
                             IN IF d.ok
                                THEN ParseWhere(toks, d.next,
                                         Append(acc, [kind |-> "ANY", phs |-> d.phs]))
                                ELSE [ok |-> FALSE, clauses |-> acc, limit |-> 0]
                        ELSE [ok |-> FALSE, clauses |-> acc, limit |-> 0]

ParseSelect(toks) ==
    IF toks = <<>> \/ toks[1].tok # "SELECT"
    THEN [ok |-> FALSE, clauses |-> <<>>, limit |-> 0]
    ELSE ParseWhere(toks, 2, <<>>)

\* every placeholder is bound, and to a value of the type its clause needs
Bound(clauses, args) ==
    \A c \in DOMAIN clauses : \A j \in DOMAIN clauses[c].phs :
        LET n == clauses[c].phs[j]
        IN /\ n \in DOMAIN args
           /\ args[n].kind = (IF clauses[c].kind = "PHARR" THEN "array" ELSE "int")

\* items @> $n : the row's component set contains the parameter
\* (every element of it, for an array)
Holds(clause, args, row) ==
    \E j \in DOMAIN clause.phs : Range(args[clause.phs[j]].v) \subseteq row.items

Matches(clauses, args, row) ==
    \A c \in DOMAIN clauses : Holds(clauses[c], args, row)

RECURSIVE ScanBackward(_, _, _, _)
\* ORDER BY killmail DESC LIMIT n: walk the key killmail downward from k,
\* keep the rows that qualify, stop after n of them
ScanBackward(hit, k, n, acc) ==
    IF k < 1 \/ Len(acc) >= n THEN acc
    ELSE ScanBackward(hit, k - 1, n, IF hit[k] THEN Append(acc, k) ELSE acc)

\* s.X.SelectContext(ctx, &ret.Fits, sb.String(), args...)
SelectFits(toks, args) ==
    LET q == ParseSelect(toks)
    IN IF ~q.ok THEN [rows |-> <<>>, err |-> "pq: syntax error"]
       ELSE IF ~Bound(q.clauses, args)
            THEN [rows |-> <<>>, err |-> "pq: bad parameter"]
            ELSE LET last == Cardinality(DOMAIN store.fits)
                     hit == [k \in 1..last |->
                                Matches(q.clauses, args, store.fits[k])]
                     ks == ScanBackward(hit, last, q.limit, <<>>)
                 IN [rows |-> [i \in DOMAIN ks |-> store.fits[ks[i]]], err |-> ""]

---------------------------------------------------------------------------
(* Fits: the loop that fills Name, Hi, Med and Lo of every returned row *)

RECURSIVE Classify(_)
\* `for _, v := range his { ... f.Hi = append(f.Hi, item) }`
Classify(ids) ==
    IF ids = <<>> THEN <<>>
    ELSE LET item == ItemAt(Head(ids))
         IN IF IsCharge(GroupAt(item.Group)) THEN Classify(Tail(ids))
            ELSE <<item>> \o Classify(Tail(ids))

\* the buffers his, meds, los before the loop, and no row filled yet
NoRows == [his |-> <<>>, meds |-> <<>>, los |-> <<>>, out |-> <<>>]

\* one iteration of `for _, f := range ret.Fits`
ClassifyRow(st, f) ==
    LET h == Unmarshal(f.hiraw, st.his)
        m == Unmarshal(f.medraw, st.meds)
        l == Unmarshal(f.lowraw, st.los)
    IN [his |-> h, meds |-> m, los |-> l,
        out |-> Append(st.out,
                    [Killmail |-> f.killmail, Ship |-> f.ship,
                     Name |-> ItemAt(f.ship).Name, Cost |-> f.cost,
                     Hi |-> Classify(h), Med |-> Classify(m), Lo |-> Classify(l)])]

RECURSIVE ClassifyFrom(_, _)
\* the loop: his, meds and los are declared before it and keep their
\* contents from one row to the next
ClassifyFrom(rows, st) ==
    IF Len(st.out) = Len(rows) THEN st.out
    ELSE ClassifyFrom(rows, ClassifyRow(st, rows[Len(st.out) + 1]))

ClassifyRows(rows) == ClassifyFrom(rows, NoRows)

---------------------------------------------------------------------------
(* Search: the match closure and the two scans *)

\* ContainsAll leaving the loop after the first subterm
ContainsAllFirst(s, fields) == fields = <<>> \/ Contains(s, Head(fields))

RECURSIVE ContainsAll(_, _)
\* `for _, term := range fields`: false at the first subterm s lacks
ContainsAll(s, fields) ==
    IF fields = <<>> THEN TRUE
    ELSE IF ~Contains(s, Head(fields)) THEN FALSE
         ELSE ContainsAll(s, Tail(fields))

\* match := func(s string) bool, for ret.Search = search
match(s, search) ==
    IF Contains(s, search) THEN TRUE
    ELSE ContainsAll(s, Fields(search))

Result(type, name, id) == [Type |-> type, Name |-> name, ID |-> id]

RECURSIVE ScanGroups(_, _, _)
\* `for id, group := range s.Global.Groups`
ScanGroups(order, search, results) ==
    IF order = <<>> THEN results
    ELSE LET group == catalog.Groups[Head(order)]
         IN IF ~match(ToLower(group.Name), search)
            THEN ScanGroups(Tail(order), search, results)
            ELSE ScanGroups(Tail(order), search,
                            Append(results, Result("group", group.Name, Head(order))))

\* whether the entity scan stops after a matching item
CapReached(results) == Len(results) > SearchCap

RECURSIVE ScanItems(_, _, _)
\* `for id, item := range s.Global.Items`
ScanItems(order, search, results) ==
    IF order = <<>> THEN results
    ELSE LET item == catalog.Items[Head(order)]
             typ == searchCategories(GroupAt(item.Group).Category)
             added == IF typ # "" THEN Append(results, Result(typ, item.Name, Head(order)))
                      ELSE results
         IN IF ~match(item.Lower, search)
            THEN ScanItems(Tail(order), search, results)
            ELSE IF CapReached(added) THEN added
                 ELSE ScanItems(Tail(order), search, added)

\* ret.Search = strings.ToLower(strings.TrimSpace(r.FormValue("term")))
Normalize(term) == ToLower(TrimSpace(term))

---------------------------------------------------------------------------
(* Requests and results *)

EmptyReq == [id |-> <<>>, ship |-> <<>>, item |-> <<>>, group |-> <<>>, term |-> <<>>]

\* a nil interface{}; the other fields are the zero values
NilRet ==
    [nil |-> TRUE, Killmail |-> 0, Filter |-> EmptyFilter, Fits |-> <<>>,
     Search |-> <<>>, Results |-> <<>>]

IdValues == {<<>>, <<"x">>, <<"2">>, <<"7">>, <<"1", "x">>}

ShipValues == {<<>>, <<"x">>, <<"4">>}

ItemValues == {<<"-", "1">>, <<"1">>, <<"9">>}

GroupValues == {<<"0">>, <<"1">>, <<"4">>}

TermValues ==
    {<<>>, <<" ", " ", " ">>, <<" ", "A", "b", " ">>, <<"a", "b", "c">>,
     <<"C", "a", "b", " ">>, <<"w", "a", "r", "p", " ", "c", "o", "r", "e">>,
     <<"c", "o", "r", "e">>, <<"W", "a", "r", "p">>, <<"a", " ", "w">>}

---------------------------------------------------------------------------
(* The handlers *)

\* Fit, up to the row lookup: the slots of the killmail are resolved by
\* km.Items, which this file does not define and the model leaves out
Fit ==
    /\ handler = "none"
    /\ \E id \in IdValues :
        /\ req' = [EmptyReq EXCEPT !.id = id]
        /\ IF id = <<>>
           THEN /\ ret' = NilRet
                /\ err' = "missing fit id"
                /\ queries' = <<>>
                /\ touched' = FALSE
           ELSE /\ queries' = <<[sb |-> <<Tok("SELECT_KILLMAIL", 1)>>,
                                 args |-> <<TextArg(id)>>]>>
                /\ IF ~IsInteger(id)
                   THEN /\ ret' = NilRet
                        /\ err' = "pq: invalid input syntax for integer"
                        /\ touched' = FALSE
                   ELSE IF Atoi(id) \notin store.killmails
                        THEN /\ ret' = NilRet
                             /\ err' = "sql: no rows in result set"
                             /\ touched' = FALSE
                        ELSE /\ ret' = [NilRet EXCEPT !.nil = FALSE,
                                                      !.Killmail = Atoi(id)]
                             /\ err' = ""
                             /\ touched' = TRUE
    /\ handler' = "Fit"
    /\ UNCHANGED <<catalog, store, status>>

Fits ==
    /\ handler = "none"
    /\ \E ship \in ShipValues, item \in SeqsUpTo(ItemValues, MaxItems),
          group \in SeqsUpTo(GroupValues, MaxGroups) :
        LET form == [EmptyReq EXCEPT !.ship = ship, !.item = item, !.group = group]
        IN \E orders \in GroupOrders(group) :
            LET b == BuildQuery(form, orders)
                res == SelectFits(b.sb, b.args)
            IN /\ req' = form
               /\ queries' = <<[sb |-> b.sb, args |-> b.args]>>
               /\ ret' = [NilRet EXCEPT !.nil = FALSE, !.Filter = b.filter,
                              !.Fits = ClassifyRows(res.rows)]
               /\ err' = res.err
    /\ touched' = TRUE
    /\ handler' = "Fits"
    /\ UNCHANGED <<catalog, store, status>>

\* Search, for a term of the set terms
SearchOf(terms) ==
    /\ handler = "none"
    /\ \E term \in terms :
        LET search == Normalize(term)
        IN /\ req' = [EmptyReq EXCEPT !.term = term]
           /\ IF Len(search) < MinTerm
              THEN /\ ret' = NilRet
                   /\ touched' = FALSE
              ELSE /\ \E og \in MapOrders(DOMAIN catalog.Groups),
                         oi \in MapOrders(DOMAIN catalog.Items) :
                        ret' = [NilRet EXCEPT
                                   !.nil = FALSE,
                                   !.Search = search,
                                   !.Results = ScanItems(oi, search,
                                                   ScanGroups(og, search, <<>>))]
                   /\ touched' = TRUE
    /\ err' = ""
    /\ queries' = <<>>
    /\ handler' = "Search"
    /\ UNCHANGED <<catalog, store, status>>

Search == SearchOf(TermValues)

\* Wrap, after f returns: 500 with the error text, or 200 with the JSON
WrapRespond ==
    /\ handler # "none"
    /\ status' = IF err # "" THEN 500 ELSE 200
    /\ handler' = "none"
    /\ req' = EmptyReq
    /\ ret' = NilRet
    /\ err' = ""
    /\ queries' = <<>>
    /\ touched' = FALSE
    /\ UNCHANGED <<catalog, store>>

---------------------------------------------------------------------------
(* Specifications *)

Scenarios ==
    {[catalog |-> SmallCatalog, store |-> SmallStore],
     [catalog |-> BigCatalog, store |-> BigStore]}

Idle ==
    /\ handler = "none"
    /\ req = EmptyReq
    /\ ret = NilRet
    /\ err = ""
    /\ queries = <<>>
    /\ touched = FALSE
    /\ status = 0

Init ==
    /\ \E sc \in Scenarios :
        /\ catalog = sc.catalog
        /\ store = sc.store
    /\ Idle

Next == Fit \/ Fits \/ Search \/ WrapRespond

Spec == Init /\ [][Next]_vars

\* The match closure on its own: a catalog of one group and one item that
\* both carry the candidate name, searched for every short term.

WarpCore == <<"w","a","r","p"," ","c","o","r","e">>

WarpCoreStab == <<"w","a","r","p"," ","c","o","r","e"," ","s","t","a","b">>

CoreWarpBoost == <<"c","o","r","e"," ","w","a","r","p"," ","b","o","o","s","t">>

Warp == <<"w","a","r","p">>

MatchCandidates ==
    SeqsUpTo({"A", "b", " "}, MaxCand) \cup {WarpCoreStab, CoreWarpBoost, Warp}

MatchTerms == SeqsUpTo({"a", "B", " "}, MaxTerm) \cup {WarpCore}

CandidateCatalog(name) ==
    [Groups |-> (1 :> MkGroup(1, name, 7)), Items |-> (1 :> MkItem(1, name, 1))]

InitMatch ==
    /\ \E name \in MatchCandidates : catalog = CandidateCatalog(name)
    /\ store = SmallStore
    /\ Idle

SearchAny == SearchOf(MatchTerms)

NextMatch == SearchAny \/ WrapRespond

SpecMatch == InitMatch /\ [][NextMatch]_vars

---------------------------------------------------------------------------
(* Properties *)

\* s has x as a contiguous substring
HasSub(s, x) ==
    \E i \in 0..(Len(s) - Len(x)) : SubSeq(s, i + 1, i + Len(x)) = x

\* the whitespace-separated subterms of t: its maximal runs without a space
Subterms(t) ==
    {SubSeq(t, i, j) : <<i, j>> \in
        {p \in (DOMAIN t) \X (DOMAIN t) :
            /\ p[1] <= p[2]
            /\ \A k \in p[1]..p[2] : t[k] # " "
            /\ (p[1] = 1 \/ t[p[1] - 1] = " ")
            /\ (p[2] = Len(t) \/ t[p[2] + 1] = " ")}}

\* the matching rule: the whole term, or every subterm in any order
Rule(s, t) == HasSub(s, t) \/ \A x \in Subterms(t) : HasSub(s, x)

Reported(type, id) ==
    \E i \in DOMAIN ret.Results :
        ret.Results[i].Type = type /\ ret.Results[i].ID = id

\* the numbers a list of form values parses to that are > 0, in order
Positive(values) ==
    SelectSeq([i \in DOMAIN values |-> Atoi(values[i])], LAMBDA x : x > 0)

\* no facet of the request supplies an identifier > 0
Facetless ==
    /\ Atoi(req.ship) <= 0
    /\ Positive(req.item) = <<>>
    /\ Positive(req.group) = <<>>

\* C1: a search for a term shorter than 3 characters after trimming returns
\* the normalized term with an empty result list, as a normal outcome, and
\* reads nothing of the catalog.
C1_ShortTermEchoed ==
    (handler = "Search" /\ Len(Normalize(req.term)) < MinTerm) =>
        /\ ~ret.nil
        /\ ret.Search = Normalize(req.term)
        /\ ret.Results = <<>>
        /\ err = ""
        /\ ~touched

\* C2: for a term of length >= 3, a candidate name is reported exactly when
\* it contains the term or contains every subterm of the term; "warp core"
\* finds "warp core stab" and "core warp boost" but not "warp".
C2_MatchRule ==
    (handler = "Search" /\ ~ret.nil) =>
        /\ Len(ret.Search) >= MinTerm
        /\ \A g \in DOMAIN catalog.Groups :
              Reported("group", g) <=>
                  Rule(ToLower(catalog.Groups[g].Name), ret.Search)
        /\ \A i \in DOMAIN catalog.Items :
              Reported("item", i) <=> Rule(catalog.Items[i].Lower, ret.Search)
        /\ (ret.Search = WarpCore
               /\ catalog.Items[1].Name \in {WarpCoreStab, CoreWarpBoost}) =>
              Reported("item", 1)
        /\ (ret.Search = WarpCore /\ catalog.Items[1].Name = Warp) =>
              ~Reported("item", 1)

\* a search that matched only by the subterm rule, in another order
C2_Witness ==
    /\ handler = "Search"
    /\ ret.Search = WarpCore
    /\ catalog.Items[1].Name = CoreWarpBoost
    /\ Reported("item", 1)
    /\ Reported("group", 1)

\* C3: the entity scan of a search contributes at most 50 results.
C3_EntityScanAtMost50 ==
    handler = "Search" =>
        Cardinality({i \in DOMAIN ret.Results : ret.Results[i].Type # "group"})
            <= SearchCap

\* C4: a group facet > 0 whose group has no item in the catalog makes Fits
\* return no configuration, and no error.
C4_EmptyGroupNoError ==
    (handler = "Fits" /\ \E i \in DOMAIN req.group :
                            Atoi(req.group[i]) > 0 /\ Members(Atoi(req.group[i])) = {}) =>
        /\ err = ""
        /\ ret.Fits = <<>>

\* the ids of raw that a slot list is to show: those found in the catalog
\* whose group is no charge, in order
Shown(raw) ==
    SelectSeq(Unmarshal(raw, <<>>),
              LAMBDA v : v \in DOMAIN catalog.Items /\ ~IsCharge(GroupAt(catalog.Items[v].Group)))

Resolved(ids) == [i \in DOMAIN ids |-> catalog.Items[ids[i]]]

\* C5: each slot list of a returned row is the row's own raw identifiers
\* that are in the catalog and in no consumable group, in order.
C5_SlotsClassified ==
    handler = "Fits" =>
        \A i \in DOMAIN ret.Fits :
            LET row == store.fits[ret.Fits[i].Killmail]
            IN /\ ret.Fits[i].Hi = Resolved(Shown(row.hiraw))
               /\ ret.Fits[i].Med = Resolved(Shown(row.medraw))
               /\ ret.Fits[i].Lo = Resolved(Shown(row.lowraw))

\* the killmails of the returned rows
Returned == [i \in DOMAIN ret.Fits |-> ret.Fits[i].Killmail]

\* C6: when no facet supplies an identifier > 0, Fits sends the base
\* statement with no clause and no parameter, echoes no filter, reports no
\* error and returns the 100 highest killmails of the table, descending.
C6_NoFacetUnfiltered ==
    (handler = "Fits" /\ Facetless) =>
        /\ Len(queries) = 1
        /\ Len(queries[1].sb) = 2
        /\ queries[1].sb[1] = Tok("SELECT", 0)
        /\ queries[1].sb[2] = Tok("TAIL", FitsLimit)
        /\ Len(queries[1].args) = 0
        /\ ret.Filter = EmptyFilter
        /\ err = ""
        /\ Len(Returned) = Min(FitsLimit, Cardinality(DOMAIN store.fits))
        /\ \A i, j \in DOMAIN Returned : i < j => Returned[i] > Returned[j]
        /\ \A k \in DOMAIN store.fits :
              k \notin Range(Returned) => \A i \in DOMAIN Returned : k < Returned[i]

\* a request whose three facets are all given and all <= 0, cut at the limit
C6_Witness ==
    /\ handler = "Fits"
    /\ Facetless
    /\ req.ship # <<>> /\ req.item # <<>> /\ req.group # <<>>
    /\ Len(ret.Fits) = FitsLimit
    /\ Cardinality(DOMAIN store.fits) > FitsLimit

\* the positions of the statement's tokens of kind t
TokensOf(t) == {i \in DOMAIN queries[1].sb : queries[1].sb[i].tok = t}

\* the positions of the parameters of kind k
ArgsOf(k) == {i \in DOMAIN queries[1].args : queries[1].args[i].kind = k}

\* C7: the item list contributes one containment clause and one array
\* parameter when it has an identifier > 0, none otherwise; the array is
\* the identifiers > 0 in request order, duplicates kept, and every row
\* returned contains all of them.
C7_ItemFacetOneClause ==
    handler = "Fits" =>
        LET ids == Positive(req.item)
        IN IF ids = <<>>
           THEN TokensOf("PHARR") = {} /\ ArgsOf("array") = {}
           ELSE /\ Cardinality(TokensOf("PHARR")) = 1
                /\ Cardinality(ArgsOf("array")) = 1
                /\ \A a \in ArgsOf("array") :
                      /\ queries[1].args[a].v = ids
                      /\ \A p \in TokensOf("PHARR") : queries[1].sb[p].n = a
                /\ Cardinality(TokensOf("PH")) = Cardinality(ArgsOf("int"))
                /\ \A i \in DOMAIN ret.Fits :
                      Range(ids) \subseteq store.fits[ret.Fits[i].Killmail].items

\* an item list with a duplicate, and the rows that hold the item returned
C7_Witness ==
    /\ handler = "Fits"
    /\ Positive(req.item) = <<1, 1>>
    /\ Len(ret.Fits) = 2
    /\ err = ""

\* C8: Fit with a missing or malformed identifier returns an error and no
\* result, and sends nothing to the store.
C8_BadIdNeverQueried ==
    (handler = "Fit" /\ ~IsInteger(req.id)) =>
        /\ err # ""
        /\ ret.nil
        /\ queries = <<>>

\* C9: a slot of a returned row whose raw bytes are empty or no JSON array
\* has an empty list.
C9_NoCarryOver ==
    handler = "Fits" =>
        \A i \in DOMAIN ret.Fits :
            LET row == store.fits[ret.Fits[i].Killmail]
            IN /\ ~IsJSONArray(row.hiraw) => ret.Fits[i].Hi = <<>>
               /\ ~IsJSONArray(row.medraw) => ret.Fits[i].Med = <<>>
               /\ ~IsJSONArray(row.lowraw) => ret.Fits[i].Lo = <<>>

\* the positions of the placeholders of the statement, in order of appearance
Placeholders ==
    SelectSeq(queries[1].sb, LAMBDA tk : tk.tok \in {"PH", "PHARR"})

RECURSIVE MembersBefore(_, _)
\* how many parameters the first j groups of gids bind
MembersBefore(gids, j) ==
    IF j = 0 THEN 0
    ELSE MembersBefore(gids, j - 1) + Cardinality(Members(gids[j]))

\* C10: the placeholders are numbered 1..n in order of appearance, n is the
\* number of parameters, and the parameters are the ship id if any, then
\* the item array if any, then the member ids of each group in request order.
C10_PlaceholdersBound ==
    handler = "Fits" =>
        LET args == queries[1].args
            ship == IF Atoi(req.ship) > 0 THEN 1 ELSE 0
            item == IF Positive(req.item) # <<>> THEN 1 ELSE 0
            gids == Positive(req.group)
        IN /\ Len(Placeholders) = Len(args)
           /\ \A k \in DOMAIN Placeholders :
                 /\ Placeholders[k].n = k
                 /\ (Placeholders[k].tok = "PHARR") <=> (args[k].kind = "array")
           /\ Len(args) = ship + item + MembersBefore(gids, Len(gids))
           /\ ship = 1 => args[1] = IntArg(Atoi(req.ship))
           /\ item = 1 => args[ship + 1] = ArrayArg(Positive(req.item))
           /\ \A j \in DOMAIN gids :
                 LET from == ship + item + MembersBefore(gids, j - 1)
                     n == Cardinality(Members(gids[j]))
                 IN /\ \A k \in (from + 1)..(from + n) : args[k].kind = "int"
                    /\ {args[k].v[1] : k \in (from + 1)..(from + n)} = Members(gids[j])

\* all three facets set, the group with two members asked for twice
C10_Witness ==
    /\ handler = "Fits"
    /\ Atoi(req.ship) > 0
    /\ Positive(req.item) # <<>>
    /\ Positive(req.group) = <<1, 1>>
    /\ Len(queries[1].args) = 6
    /\ queries[1].args[3].v # queries[1].args[5].v

=============================================================================
